---- MODULE Spec2Model ----
(***************************************************************************)
(* Model of my-lovely-app.                                                 *)
(*                                                                         *)
(*  - src/src/app/blog/page.tsx: the Gallery component's AR feature        *)
(*    (launchAR, endARSession, closeImageModal, the select / end listeners,*)
(*    the fallback timer and the frame callback onXRFrame).                *)
(*  - src/src/app/filmscanning/page.tsx: getMagnifyParams.                 *)
(*                                                                         *)
(* The browser is the environment.  Its WebXR behaviour follows the WebXR  *)
(* Device API: at most one immersive session is pending or active; after a *)
(* session is shut down its outstanding promises reject, constructing an   *)
(* XRWebGLLayer on it throws, no frame or select is delivered to it, and   *)
(* one "end" event is queued; end() on an ended session returns a rejected *)
(* promise (it does not throw).                                            *)
(*                                                                         *)
(* launchAR's closure (placed, pictureGroup, the timer, the frame chain)   *)
(* is kept for the latest invocation that completed its setup: a new       *)
(* session starts only after the previous one has ended and its "end"      *)
(* event was dispatched, and by then the older closure is dead (no select  *)
(* or frame is delivered to an ended session and the end listener has      *)
(* cleared the timer).  ClosureDeadWhenReplaced states this.               *)
(***************************************************************************)
EXTENDS Integers, Sequences, FiniteSets, TLC

VARIABLES
  \* ---- Gallery: React state and refs (blog/page.tsx 26-39)
  selectedImage,      \* TRUE while the modal is open (selectedImage !== null)
  isARSupported,      \* result of the isSessionSupported check
  arSessionActive,    \* the "session active" flag, disables the AR buttons
  xrSessionRef,       \* 0 = null, r = the session obtained by launch run r
  frameRef,           \* 0 = null, else the handle stored by onXRFrame
  canvasRef,          \* 0 = null, r = the canvas created by run r
  hitTestSourceRef,   \* -1 = undefined, 0 = null, r = run r's hit-test source
  \* ---- launchAR invocations
  pc,                 \* per run: the await (or end state) the run is at
  \* ---- the closure of the latest launchAR that completed its setup
  owner,              \* the run it belongs to, 0 = none yet
  h,                  \* its size.heightCm, in 0.01 cm (the size argument is
                      \*   first read at line 262, after the last await, so the
                      \*   model draws it there)
  placed,             \* the closure variable `placed`
  pose,               \* pictureGroup.position
  timer,              \* the fallback timer: unset, armed, fired or cleared
  raf,                \* handle of the session's pending frame callback, 0 = none
  pending,            \* number of frame callbacks queued on that session
  framePath,          \* the path the frame callback took, while it is the
                      \*   last thing that happened ("none" otherwise)
  \* ---- browser / platform
  sess,               \* per run: "none" | "open" | "ended"
  endEvt,             \* per run: an "end" event is queued for the session
  dom,                \* canvases attached to document.body
  diag,               \* diagnostic overlay divs attached to document.body
  hitActive,          \* per run: its hit-test source exists and is not cancelled
  \* ---- observation (history) variables
  elapsed,            \* 5000 ms have passed since the timer was armed
  hitSel,             \* first result of the first select, delivered before the
                      \*   5000 ms elapsed, whose result list was non-empty
                      \*   (NoSelect = none so far)
  nFallback,          \* fallback placements performed by the closure
  tornDown,           \* per run: endARSession has run since its session ended
  td,                 \* log of the latest endARSession call, while it is the
                      \*   last thing that happened
  uncaught,           \* an exception left launchAR
  \* ---- magnifier (filmscanning/page.tsx)
  mag,                \* inputs and result of the latest getMagnifyParams call
  ldr,                \* useImageLoader: its state and the Image objects it made
  rsz                 \* Home: container, debounced resize and stage dimensions

closureVars == <<owner, h, placed, pose, timer, elapsed, hitSel, nFallback>>
vars == <<selectedImage, isARSupported, arSessionActive, xrSessionRef, frameRef,
          canvasRef, hitTestSourceRef, pc, owner, h, placed, pose, timer,
          raf, pending, framePath, sess, endEvt, dom, diag, hitActive, elapsed,
          hitSel, nFallback, tornDown, td, uncaught, mag, ldr, rsz>>

----------------------------------------------------------------------------
(* Bounds of the model *)
MaxRuns == 2        \* launchAR invocations over a behaviour
MaxFrames == 2      \* frame callbacks run in one session

Runs == 1..MaxRuns

----------------------------------------------------------------------------
(* Values *)
Undefined == -1     \* hitTestSourceRef's initial value (useRef(undefined))
NoSelect == <<>>    \* hitSel: no select with a non-empty result list so far
NoPose == <<0>>     \* XRHitTestResult.getPose(localRef) returned no pose
Origin == <<0, 0, 0>>                      \* a new THREE.Group's position
HitPoses == {<<1, 0, -1>>, <<-1, 0, -3>>}  \* poses the platform may report
\* heightCm of the three sizes of the gallery item, in units of 0.01 cm
Heights == {2032, 2794, 4064}
\* camera.position.y = 1.6 and the fallback z = -2, in units of 0.0001 m
EyeY == 16000
FallbackZ == -20000
\* line 327: pictureGroup.position.set(0, eyeY - h / 2, -2), h = heightCm * 0.01
FallbackPose(hh) == <<0, EyeY - hh \div 2, FallbackZ>>

\* hit-test result lists: each entry is what getPose(localRef) gives for it
HitResults == {<<>>} \cup {<<p>> : p \in HitPoses \cup {NoPose}}
                     \cup {<<p, q>> : p \in HitPoses \cup {NoPose}, q \in HitPoses}

Awaits == {"camera", "session", "makeXRCompatible", "refLocal", "refViewer",
           "hitTestSource"}
SetupSteps == {"camera", "session", "glContext", "makeXRCompatible", "xrLayer",
               "updateRenderState", "referenceSpace", "hitTestSource"}

----------------------------------------------------------------------------
(* The refs, the flag and the platform objects that endARSession touches,  *)
(* as one record, so that a handler can run its own assignments and then   *)
(* the teardown in one step.  steps logs the release actions of one call;  *)
(* endOnEnded records that end() was called on a session already ended,    *)
(* threw that the call raised (cancel() on a hit-test source that was      *)
(* already cancelled throws InvalidStateError).                            *)
Cur == [xr |-> xrSessionRef, frame |-> frameRef, canvas |-> canvasRef,
        hit |-> hitTestSourceRef, active |-> arSessionActive,
        sess |-> sess, endEvt |-> endEvt, dom |-> dom, hitActive |-> hitActive,
        raf |-> raf, pending |-> pending, framePath |-> "none",
        steps |-> <<>>, endOnEnded |-> FALSE, threw |-> FALSE]

Set(st) ==
  /\ xrSessionRef' = st.xr
  /\ frameRef' = st.frame
  /\ canvasRef' = st.canvas
  /\ hitTestSourceRef' = st.hit
  /\ arSessionActive' = st.active
  /\ sess' = st.sess
  /\ endEvt' = st.endEvt
  /\ dom' = st.dom
  /\ hitActive' = st.hitActive
  /\ raf' = st.raf
  /\ pending' = st.pending
  /\ framePath' = st.framePath

\* XRSession.end(), or the platform shutting the session down: the session
\* ends, its pending frame callback is dropped and its "end" event is queued;
\* end() on a session that has already ended only returns a rejected promise.
SessionEnd(st, s) ==
  IF st.sess[s] = "open"
    THEN [st EXCEPT !.sess[s] = "ended", !.endEvt[s] = TRUE, !.raf = 0,
                    !.pending = 0]
    ELSE [st EXCEPT !.endOnEnded = TRUE]

\* mutant: the session is ended but the ref is not cleared
EndSessionStepKeepsRef(st) ==
  IF st.xr # 0
    THEN [SessionEnd(st, st.xr) EXCEPT !.steps = Append(@, "session")]
    ELSE st

\* lines 69-73
EndSessionStep(st) ==
  IF st.xr # 0
    THEN [SessionEnd(st, st.xr) EXCEPT !.xr = 0, !.steps = Append(@, "session")]
    ELSE st
\* lines 74-77
CancelFrameStep(st) ==
  IF st.frame # 0
    THEN [st EXCEPT !.frame = 0, !.steps = Append(@, "frame")]
    ELSE st
\* lines 78-81: the canvas is removed (and the ref cleared) only when it has a
\* parent element
RemoveCanvasStep(st) ==
  IF st.canvas # 0 /\ st.canvas \in st.dom
    THEN [st EXCEPT !.dom = @ \ {st.canvas}, !.canvas = 0,
                    !.steps = Append(@, "canvas")]
    ELSE st
\* lines 82-85: undefined and null are both falsy
CancelHitTestStep(st) ==
  IF st.hit > 0
    THEN IF st.hitActive[st.hit]
           THEN [st EXCEPT !.hitActive[st.hit] = FALSE, !.hit = 0,
                           !.steps = Append(@, "hitTestSource")]
           ELSE [st EXCEPT !.threw = TRUE, !.steps = Append(@, "hitTestSource")]
    ELSE st
\* line 86, reached unless the call has thrown
ResetActiveStep(st) ==
  IF st.threw THEN st ELSE [st EXCEPT !.active = FALSE]

\* lines 68-87
endARSession(st) ==
  ResetActiveStep(
    CancelHitTestStep(RemoveCanvasStep(CancelFrameStep(EndSessionStep(st)))))

NoTeardown == [consec |-> 0, by |-> "none", step |-> "none", steps |-> <<>>,
               endOnEnded |-> FALSE, threw |-> FALSE]

\* run endARSession on st (the state the handler has produced so far); by
\* names the path that called it, step the setup step that failed
\* (consec counts the calls made back to back: nothing but the dispatch of
\* an "end" event lies between this call and the previous one)
Teardown(st, by, step) ==
  LET s == endARSession([st EXCEPT !.steps = <<>>, !.endOnEnded = FALSE,
                                   !.threw = FALSE])
      backToBack == td.consec > 0 /\ [st EXCEPT !.endEvt = endEvt] = Cur
  IN /\ Set(s)
     /\ tornDown' = [r \in Runs |-> tornDown[r] \/ s.sess[r] = "ended"]
     /\ td' = [consec |-> IF backToBack THEN 2 ELSE 1, by |-> by,
               step |-> step, steps |-> s.steps, endOnEnded |-> s.endOnEnded,
               threw |-> s.threw]

\* a handler that does not call endARSession
Plain(st) == Set(st) /\ tornDown' = tornDown /\ td' = NoTeardown

----------------------------------------------------------------------------
(* Initial state: the component has mounted, nothing has been launched *)
NoMag == [called |-> FALSE]

\* useImageLoader before its effect has run (lines 69-72), for URL u (0 is the
\* empty string): no image, loading, no error, no dimensions, no Image made
LoaderStart(u) ==
  [url |-> u, image |-> 0, dimensions |-> <<>>, loading |-> TRUE,
   error |-> "none", loads |-> <<>>, phase |-> "constructed"]

\* Home before its resize effect has run (lines 383, 389-394): stage 400x300
ResizeStart(w, dims) ==
  [width |-> w, dims |-> dims, stage |-> <<400, 300>>, phase |-> "constructed",
   timerLeft |-> -1, since |-> 0, calls |-> 0, runs |-> 0, firstW |-> w]

ARInit ==
  /\ selectedImage = FALSE
  /\ isARSupported = FALSE
  /\ arSessionActive = FALSE
  /\ xrSessionRef = 0
  /\ frameRef = 0
  /\ canvasRef = 0
  /\ hitTestSourceRef = Undefined
  /\ pc = [r \in Runs |-> "idle"]
  /\ owner = 0
  /\ h = 0
  /\ placed = FALSE
  /\ pose = Origin
  /\ timer = "unset"
  /\ raf = 0
  /\ pending = 0
  /\ framePath = "none"
  /\ sess = [r \in Runs |-> "none"]
  /\ endEvt = [r \in Runs |-> FALSE]
  /\ dom = {}
  /\ diag = {}
  /\ hitActive = [r \in Runs |-> FALSE]
  /\ elapsed = FALSE
  /\ hitSel = NoSelect
  /\ nFallback = 0
  /\ tornDown = [r \in Runs |-> FALSE]
  /\ td = NoTeardown
  /\ uncaught = FALSE

Init == ARInit /\ mag = NoMag /\ ldr = LoaderStart(1) /\ rsz = ResizeStart(400, <<600, 400>>)

----------------------------------------------------------------------------
(* Gallery handlers *)

\* lines 107-117: the capability check made once at mount
SupportCheck ==
  /\ ~isARSupported
  /\ isARSupported' = TRUE
  /\ Plain(Cur)
  /\ UNCHANGED <<selectedImage, pc, diag, uncaught, mag, ldr, rsz>>
  /\ UNCHANGED closureVars

\* lines 138-142, reached through a gallery tile (covered by the modal while
\* it is open)
openImageDetails ==
  /\ ~selectedImage
  /\ selectedImage' = TRUE
  /\ Plain(Cur)
  /\ UNCHANGED <<isARSupported, pc, diag, uncaught, mag, ldr, rsz>>
  /\ UNCHANGED closureVars

\* lines 149-152
closeImageModal ==
  /\ selectedImage
  /\ selectedImage' = FALSE
  /\ Teardown(Cur, "close", "none")
  /\ UNCHANGED <<isARSupported, pc, diag, uncaught, mag, ldr, rsz>>
  /\ UNCHANGED closureVars

----------------------------------------------------------------------------
(* launchAR, lines 155-374, one action per suspension point *)

\* the try block spans lines 165-370: every setup step is inside it
InTry(step) == step \in SetupSteps

\* lines 370-373: a failure at `step`, reached with the refs as in st
Catch(r, step, st) ==
  /\ pc' = [pc EXCEPT ![r] = "failed"]
  /\ IF InTry(step)
       THEN Teardown(st, "error", step) /\ uncaught' = uncaught
       ELSE Plain(st) /\ uncaught' = TRUE

\* the button of lines 515-523 is rendered when isARSupported and enabled
\* while ~arSessionActive; it lives in the modal.  Lines 155-168.
launchAR(r) ==
  /\ selectedImage /\ isARSupported /\ ~arSessionActive
  /\ pc[r] = "idle" /\ \A q \in Runs : q < r => pc[q] # "idle"
  /\ pc' = [pc EXCEPT ![r] = "camera"]
  /\ Plain(Cur)
  /\ UNCHANGED <<selectedImage, isARSupported, diag, uncaught, mag, ldr, rsz>>
  /\ UNCHANGED closureVars

\* requestSession rejects at once while another immersive session is pending
\* or active
ImmersiveBusy(r) == \E q \in Runs \ {r} : pc[q] = "session" \/ sess[q] = "open"

\* lines 168-178: getUserMedia settles; on success the session is requested
CameraSettled(r, ok) ==
  /\ pc[r] = "camera"
  /\ IF ~ok THEN Catch(r, "camera", Cur)
     ELSE IF ImmersiveBusy(r) THEN Catch(r, "session", Cur)
     ELSE /\ pc' = [pc EXCEPT ![r] = "session"]
          /\ Plain(Cur)
          /\ uncaught' = uncaught
  /\ UNCHANGED <<selectedImage, isARSupported, diag, mag, ldr, rsz>>
  /\ UNCHANGED closureVars

\* lines 174-217: requestSession settles; on success the refs are set, the
\* overlay and the canvas are attached and makeXRCompatible is awaited
\* (glOk = FALSE: getContext returned null, so gl.makeXRCompatible throws).
\* A session starts only after the "end" event of the previous one was
\* dispatched.
SessionSettled(r, ok, glOk) ==
  /\ pc[r] = "session"
  /\ ok => \A q \in Runs : ~endEvt[q]
  /\ IF ~ok THEN Catch(r, "session", Cur) /\ diag' = diag
     ELSE LET st == [Cur EXCEPT !.sess[r] = "open", !.xr = r, !.active = TRUE,
                                !.dom = @ \cup {r}, !.canvas = r]
          IN /\ diag' = diag \cup {r}
             /\ IF ~glOk THEN Catch(r, "glContext", st)
                ELSE /\ pc' = [pc EXCEPT ![r] = "makeXRCompatible"]
                     /\ Plain(st)
                     /\ uncaught' = uncaught
  /\ UNCHANGED <<selectedImage, isARSupported, mag, ldr, rsz>>
  /\ UNCHANGED closureVars

\* lines 217-251: makeXRCompatible settles; then the XRWebGLLayer is built
\* (throws on an ended session), updateRenderState is called (may throw) and
\* the local reference space is requested
MakeXRSettled(r, ok, rsOk) ==
  /\ pc[r] = "makeXRCompatible"
  /\ IF ~ok THEN Catch(r, "makeXRCompatible", Cur)
     ELSE IF sess[r] # "open" THEN Catch(r, "xrLayer", Cur)
     ELSE IF ~rsOk THEN Catch(r, "updateRenderState", Cur)
     ELSE /\ pc' = [pc EXCEPT ![r] = "refLocal"]
          /\ Plain(Cur)
          /\ uncaught' = uncaught
  /\ UNCHANGED <<selectedImage, isARSupported, diag, mag, ldr, rsz>>
  /\ UNCHANGED closureVars

\* lines 251-252: a reference-space request settles (to = the next await)
RefSpaceSettled(r, from, to, ok) ==
  /\ pc[r] = from
  /\ ok => sess[r] = "open"
  /\ IF ~ok THEN Catch(r, "referenceSpace", Cur)
     ELSE /\ pc' = [pc EXCEPT ![r] = to]
          /\ Plain(Cur)
          /\ uncaught' = uncaught
  /\ UNCHANGED <<selectedImage, isARSupported, diag, mag, ldr, rsz>>
  /\ UNCHANGED closureVars

\* lines 254-369: requestHitTestSource settles; on success the ref is set,
\* the picture group is created, the select listener is added, the fallback
\* timer is armed, the first frame callback is requested (its handle is not
\* stored) and the end listener is added
HitTestSettled(r, ok, hh) ==
  /\ pc[r] = "hitTestSource"
  /\ ok => sess[r] = "open"
  /\ IF ~ok THEN Catch(r, "hitTestSource", Cur) /\ UNCHANGED closureVars
     ELSE /\ pc' = [pc EXCEPT ![r] = "done"]
          /\ Plain([Cur EXCEPT !.hit = r, !.hitActive[r] = TRUE, !.raf = 1,
                                !.pending = 1])
          /\ owner' = r
          /\ h' = hh
          /\ placed' = FALSE
          /\ pose' = Origin
          /\ timer' = "armed"
          /\ elapsed' = FALSE
          /\ hitSel' = NoSelect
          /\ nFallback' = 0
          /\ uncaught' = uncaught
  /\ UNCHANGED <<selectedImage, isARSupported, diag, mag, ldr, rsz>>

----------------------------------------------------------------------------
(* Listeners, timer and frame callback installed by launchAR *)

\* mutant: the select listener places without looking at `placed`
SelectUnguarded(r, results) ==
  /\ owner = r /\ pc[r] = "done" /\ sess[r] = "open"
  /\ IF hitTestSourceRef > 0 /\ Len(results) > 0
       THEN /\ placed' = TRUE
            /\ pose' = IF results[1] = NoPose THEN pose ELSE results[1]
       ELSE UNCHANGED <<placed, pose>>
  /\ hitSel' = IF hitSel = NoSelect /\ ~elapsed /\ hitTestSourceRef > 0
                  /\ Len(results) > 0
                 THEN results[1] ELSE hitSel
  /\ Plain(Cur)
  /\ UNCHANGED <<selectedImage, isARSupported, pc, owner, h, timer,
                 diag, elapsed, nFallback, uncaught, mag, ldr, rsz>>

\* lines 307-319: the select listener.  results[1] = NoPose makes
\* `pose.transform` throw after placed was set.
Select(r, results) ==
  /\ owner = r /\ pc[r] = "done" /\ sess[r] = "open"
  /\ IF hitTestSourceRef > 0 /\ Len(results) > 0 /\ ~placed
       THEN /\ placed' = TRUE
            /\ pose' = IF results[1] = NoPose THEN pose ELSE results[1]
       ELSE UNCHANGED <<placed, pose>>
  /\ hitSel' = IF hitSel = NoSelect /\ ~elapsed /\ hitTestSourceRef > 0
                  /\ Len(results) > 0
                 THEN results[1] ELSE hitSel
  /\ Plain(Cur)
  /\ UNCHANGED <<selectedImage, isARSupported, pc, owner, h, timer,
                 diag, elapsed, nFallback, uncaught, mag, ldr, rsz>>

\* mutant: the timer callback places without looking at `placed`
FallbackCallbackUnguarded ==
  /\ placed' = TRUE
  /\ pose' = FallbackPose(h)
  /\ nFallback' = nFallback + 1

\* mutant: the timer callback sets the guard but places at the camera
FallbackCallbackAtCamera ==
  IF ~placed
    THEN /\ placed' = TRUE
         /\ pose' = <<0, EyeY, FallbackZ>>
         /\ nFallback' = nFallback + 1
    ELSE UNCHANGED <<placed, pose, nFallback>>

\* lines 322-331: the body of the timer callback
FallbackCallback ==
  IF ~placed
    THEN /\ placed' = TRUE
         /\ pose' = FallbackPose(h)
         /\ nFallback' = nFallback + 1
    ELSE UNCHANGED <<placed, pose, nFallback>>

\* 5000 ms have passed since the timer was armed: its callback runs unless
\* clearTimeout was called on it
FallbackDeadline ==
  /\ timer \in {"armed", "cleared"} /\ ~elapsed
  /\ elapsed' = TRUE
  /\ IF timer = "armed"
       THEN timer' = "fired" /\ FallbackCallback
       ELSE UNCHANGED <<timer, placed, pose, nFallback>>
  /\ Plain(Cur)
  /\ UNCHANGED <<selectedImage, isARSupported, pc, owner, h, diag,
                 hitSel, uncaught, mag, ldr, rsz>>

\* the paths through onXRFrame: a tracked pose (lines 341-347), a pose whose
\* viewport is null (the early return of line 344), no pose (lines 348-357),
\* and an exception raised by the work after line 335
FramePaths == {"pose", "nullViewport", "noPose", "throws"}

\* mutant: the next callback is requested as the last statement
RegisteredAtEnd(path) == IF path \in {"nullViewport", "throws"} THEN 0 ELSE 1

\* line 335: session.requestAnimationFrame is the first statement, executed
\* on every path
RegisteredOnPath(path) == 1

\* lines 334-361: the session runs its queued frame callback, which requests
\* the next one and stores that handle, then works along `path`
onXRFrame(r, path) ==
  /\ owner = r /\ pc[r] = "done" /\ sess[r] = "open"
  /\ pending > 0 /\ raf # 0 /\ raf <= MaxFrames
  /\ LET n == RegisteredOnPath(path)
     IN Plain([Cur EXCEPT !.frame = IF n > 0 THEN raf + 1 ELSE @,
                          !.raf = IF n > 0 THEN raf + 1 ELSE 0,
                          !.pending = @ - 1 + n,
                          !.framePath = path])
  /\ UNCHANGED <<selectedImage, isARSupported, pc, owner, h, placed, pose,
                 timer, diag, elapsed, hitSel, nFallback, uncaught, mag, ldr, rsz>>

\* the platform shuts the session down on its own (the user leaves AR, the
\* device is lost)
PlatformEnd(r) ==
  /\ sess[r] = "open"
  /\ Plain(SessionEnd(Cur, r))
  /\ UNCHANGED <<selectedImage, isARSupported, pc, diag, uncaught, mag, ldr, rsz>>
  /\ UNCHANGED closureVars

\* lines 365-369: the queued "end" event is dispatched; the listener exists
\* once launchAR has run to its end
EndEvent(r) ==
  /\ endEvt[r]
  /\ IF pc[r] = "done"
       THEN /\ timer' = IF owner = r /\ timer = "armed" THEN "cleared" ELSE timer
            /\ Teardown([Cur EXCEPT !.endEvt[r] = FALSE], "end", "none")
       ELSE /\ Plain([Cur EXCEPT !.endEvt[r] = FALSE])
            /\ timer' = timer
  /\ UNCHANGED <<selectedImage, isARSupported, pc, diag, uncaught, mag, ldr, rsz>>
  /\ UNCHANGED <<owner, h, placed, pose, elapsed, hitSel, nFallback>>

----------------------------------------------------------------------------
Next ==
  \/ SupportCheck
  \/ openImageDetails
  \/ closeImageModal
  \/ \E r \in Runs : launchAR(r)
  \/ \E r \in Runs, ok \in BOOLEAN : CameraSettled(r, ok)
  \/ \E r \in Runs, ok \in BOOLEAN, glOk \in BOOLEAN : SessionSettled(r, ok, glOk)
  \/ \E r \in Runs, ok \in BOOLEAN, rsOk \in BOOLEAN : MakeXRSettled(r, ok, rsOk)
  \/ \E r \in Runs, ok \in BOOLEAN : RefSpaceSettled(r, "refLocal", "refViewer", ok)
  \/ \E r \in Runs, ok \in BOOLEAN : RefSpaceSettled(r, "refViewer", "hitTestSource", ok)
  \/ \E r \in Runs, ok \in BOOLEAN, hh \in Heights : HitTestSettled(r, ok, hh)
  \/ \E r \in Runs, results \in HitResults : Select(r, results)
  \/ FallbackDeadline
  \/ \E r \in Runs, path \in FramePaths : onXRFrame(r, path)
  \/ \E r \in Runs : PlatformEnd(r)
  \/ \E r \in Runs : EndEvent(r)

Spec == Init /\ [][Next]_vars

\* When a launchAR closure replaces the previous one, the previous one is
\* dead: its session has ended, its "end" event was dispatched and its timer
\* is no longer pending.
ClosureDeadWhenReplaced ==
  \A r \in Runs :
    (pc[r] \in Awaits /\ sess[r] = "open" /\ owner # 0)
      => sess[owner] = "ended" /\ ~endEvt[owner] /\ timer \in {"fired", "cleared"}

----------------------------------------------------------------------------
(* Properties of the AR session lifecycle *)

\* every tracked handle is null, the flag is false, and what the handles
\* stood for is released: no session is open, no frame callback is pending,
\* no hit-test source is live
AllReleased ==
  /\ xrSessionRef = 0 /\ frameRef = 0 /\ canvasRef = 0 /\ hitTestSourceRef <= 0
  /\ ~arSessionActive
  /\ \A r \in Runs : sess[r] # "open" /\ ~hitActive[r]
  /\ raf = 0

\* no canvas of any launch is left attached to the document
CanvasesRemoved == dom = {}

\* What holds of the three end paths: each runs endARSession without an
\* exception and right after it every tracked handle is null, the flag is
\* false, no session is open and no hit-test source or frame callback is
\* live; and a session that has ended, by whatever cause, has been torn down
\* once its launchAR is no longer suspended and its "end" event was dispatched.
EndPathsReleaseHandles ==
  /\ td.by \in {"close", "end", "error"} => td.consec >= 1 /\ ~td.threw /\ AllReleased
  /\ \A r \in Runs :
       (sess[r] = "ended" /\ (pc[r] = "failed" \/ (pc[r] = "done" /\ ~endEvt[r])))
         => /\ tornDown[r]
            /\ xrSessionRef # r /\ canvasRef # r /\ hitTestSourceRef # r
            /\ ~hitActive[r]

\* C1 (as claimed): each end path (closing the modal, the session's "end"
\* event, an error in setup) runs endARSession, and right after it the
\* session, the frame callback, the canvas and the hit-test source are
\* released and the flag is false; this includes a session the platform
\* ended while launchAR was still in its later setup steps.
C1_EndPathsTearDown ==
  /\ EndPathsReleaseHandles
  /\ td.by \in {"close", "end", "error"} => CanvasesRemoved

\* C2 (as claimed): with the modal closed while launchAR is suspended, the
\* step that follows the completion of the request in flight leaves no
\* resource of that launch held and the flag false.
C2_CloseDuringSetupReleases ==
  [][\A r \in Runs :
       (~selectedImage /\ pc[r] \in Awaits /\ pc'[r] # pc[r])
         => /\ xrSessionRef' # r /\ canvasRef' # r /\ hitTestSourceRef' # r
            /\ r \notin dom' /\ sess'[r] # "open"
            /\ (xrSessionRef' = 0 => ~arSessionActive')]_vars

\* C3 (as claimed): at most one launchAR is in setup or holds an open session.
C3_SingleLaunch ==
  Cardinality({r \in Runs : pc[r] \in Awaits \/ sess[r] = "open"}) <= 1

\* C4 (as claimed): an error at any setup step stays inside launchAR, and
\* right after the catch the session, the frame callback, the canvas and the
\* hit-test source are released and the flag is false.
C4_SetupErrorTearsDown ==
  /\ ~uncaught
  /\ td.by = "error" =>
       td.consec >= 1 /\ td.step \in SetupSteps /\ AllReleased /\ CanvasesRemoved
  /\ \A r \in Runs : pc[r] = "failed" => xrSessionRef # r /\ sess[r] # "open"

\* What holds of the catch: the error stays inside launchAR and every tracked
\* handle is null afterwards.
CatchReleasesHandles ==
  /\ ~uncaught
  /\ td.by = "error" => td.consec >= 1 /\ td.step \in SetupSteps /\ AllReleased
  /\ \A r \in Runs : pc[r] = "failed" => xrSessionRef # r /\ sess[r] # "open"

\* C5: from every reachable state, a second endARSession right after a first
\* raises nothing, releases nothing and changes nothing, and the handles are
\* null and the flag false after both; the same for the calls the program
\* itself makes back to back.
C5_TeardownIdempotent ==
  LET s1 == endARSession(Cur)
      s2 == endARSession([s1 EXCEPT !.steps = <<>>, !.endOnEnded = FALSE])
  IN /\ ~s1.threw /\ ~s2.threw
     /\ s2.steps = <<>> /\ ~s2.endOnEnded
     /\ s2 = [s1 EXCEPT !.steps = <<>>, !.endOnEnded = FALSE]
     /\ s2.xr = 0 /\ s2.frame = 0 /\ s2.canvas = 0 /\ s2.hit <= 0 /\ ~s2.active
     /\ td.consec = 2 => td.steps = <<>> /\ ~td.threw

\* C5 witness: two calls in a row on a partially initialised session (the
\* modal was closed while makeXRCompatible was pending, then that step failed)
C5_Witness ==
  /\ td.consec = 2 /\ td.by = "error" /\ td.step \in {"makeXRCompatible", "xrLayer"}
  /\ td.steps = <<>> /\ hitTestSourceRef = Undefined

C16_EndOnlyIfOpen ==
  td.by # "none" =>
    /\ ~td.endOnEnded
    /\ \E keep \in SUBSET {"session", "frame", "canvas", "hitTestSource"} :
         td.steps = SelectSeq(<<"session", "frame", "canvas", "hitTestSource">>,
                              LAMBDA x : x \in keep)

\* C17: within one session (one closure of launchAR) the pose of the picture
\* group is assigned at most once: it changes only in a step that sets the
\* placed guard, and once the guard is set neither a select nor the timer
\* changes pose or guard.
C17_PlacedOnce ==
  [][owner' = owner =>
       /\ placed => placed' /\ pose' = pose
       /\ pose' # pose => ~placed /\ placed']_vars

\* C17 witness: the timer placed first and the session is still open, so
\* selects with hit results keep arriving
C17_Witness ==
  /\ owner # 0 /\ sess[owner] = "open" /\ pc[owner] = "done"
  /\ placed /\ timer = "fired" /\ pose = FallbackPose(h) /\ hitTestSourceRef = owner

\* the frame loop of the latest launch is running: its setup has completed
\* (the first callback was requested, line 362) and its session is open
LoopRunning == owner # 0 /\ pc[owner] = "done" /\ sess[owner] = "open"

\* C18: onXRFrame requests the next callback on every path, so when it
\* returns exactly one callback is pending; from the start of the loop until
\* the session ends there is never none and never more than one.
C18_OneFramePending ==
  /\ LoopRunning => pending = 1 /\ raf # 0
  /\ framePath # "none" => pending = 1 /\ frameRef = raf
  /\ pending <= 1

\* C18 witness: the callback has just returned early on a null viewport
C18_Witness == LoopRunning /\ framePath = "nullViewport" /\ pending = 1 /\ raf = 2

\* C19 (as claimed): once endARSession has run for an ended session, neither
\* the canvas nor the diagnostic overlay that launchAR attached for it is
\* still in the document.
C19_NoElementLeftAttached ==
  \A r \in Runs : tornDown[r] => r \notin dom /\ r \notin diag

\* C20 (as claimed): whenever a frame callback of launchAR is pending,
\* frameRef holds its handle.
C20_FrameRefTracksPending ==
  (pending > 0 /\ raf # 0) => frameRef = raf

----------------------------------------------------------------------------
(* Magnifier: getMagnifyParams, filmscanning/page.tsx 113-170.             *)
(* JavaScript numbers are modelled as exact rationals <<n, d>>, d > 0, in  *)
(* lowest terms; floating-point rounding is not modelled.                  *)

RECURSIVE Gcd(_, _)
Gcd(a, b) == IF b = 0 THEN a ELSE Gcd(b, a % b)
Abs(a) == IF a < 0 THEN -a ELSE a
Rat(n, d) ==
  LET g == Gcd(Abs(n), Abs(d))
      s == IF d < 0 THEN -1 ELSE 1
  IN <<(s * n) \div g, (s * d) \div g>>
Int2Rat(n) == <<n, 1>>
RAdd(a, b) == Rat(a[1] * b[2] + b[1] * a[2], a[2] * b[2])
RSub(a, b) == Rat(a[1] * b[2] - b[1] * a[2], a[2] * b[2])
RMul(a, b) == Rat(a[1] * b[1], a[2] * b[2])
RDiv(a, b) == Rat(a[1] * b[2], a[2] * b[1])
RLe(a, b) == a[1] * b[2] <= b[1] * a[2]
RMin(a, b) == IF RLe(a, b) THEN a ELSE b
RMax(a, b) == IF RLe(a, b) THEN b ELSE a
Zero == <<0, 1>>
Two == <<2, 1>>

\* the fallbacks of lines 124-128
DefaultZoom == <<1, 2>>
DefaultStageWidth == 400
DefaultStageHeight == 300
DefaultMagWidth == 400
DefaultMagHeight == 400

\* an absent value (undefined / null) is <<>>; an image is <<id, width, height>>,
\* dimensions are <<width, height>>, zoomScale is a rational
Absent == <<>>
\* `v || dflt` on a number: undefined and 0 are falsy
OrDefault(v, dflt) == IF v = Absent \/ v[1] = 0 THEN dflt ELSE v
\* `dims?.width || dflt`, `dims?.height || dflt`
DimOr(dims, i, dflt) ==
  IF dims = Absent \/ dims[i] = 0 THEN Int2Rat(dflt) ELSE Int2Rat(dims[i])

\* lines 124-128
SafeZoom(zoom) == OrDefault(zoom, DefaultZoom)
SafeStage(stage) == <<DimOr(stage, 1, DefaultStageWidth),
                      DimOr(stage, 2, DefaultStageHeight)>>
SafeMag(md) == <<DimOr(md, 1, DefaultMagWidth), DimOr(md, 2, DefaultMagHeight)>>

\* lines 130-131: <<referenceWidth, referenceHeight>>
Reference(image, ref) ==
  IF ref # Absent THEN <<Int2Rat(ref[2]), Int2Rat(ref[3])>>
                  ELSE <<Int2Rat(image[2]), Int2Rat(image[3])>>

\* mutant: the pointer is taken as image coordinates, unscaled
CenterUnscaled(p, stage, refDim, i) == Int2Rat(p[i])

\* lines 134-135: pointer / (stage / reference), along axis i
Center(p, stage, refDim, i) ==
  RDiv(Int2Rat(p[i]), RDiv(SafeStage(stage)[i], refDim[i]))

\* lines 138-139
SourceSize(md, zoom, i) == RDiv(SafeMag(md)[i], SafeZoom(zoom))

\* mutant: the lower bound of the clamp is missing
SourceNoLowerBound(c, sz, refLen) == RMin(RSub(c, RDiv(sz, Two)), RSub(refLen, sz))

\* lines 142-143: Math.max(0, Math.min(center - size / 2, reference - size))
Source(c, sz, refLen) == RMax(Zero, RMin(RSub(c, RDiv(sz, Two)), RSub(refLen, sz)))

\* mutant: the ratio is taken the other way round
ImageScaleInverted(image, refDim, i) == RDiv(refDim[i], Int2Rat(image[i + 1]))

\* lines 152-153: image.width / referenceWidth, image.height / referenceHeight
ImageScale(image, refDim, i) == RDiv(Int2Rat(image[i + 1]), refDim[i])

\* lines 113-170; Absent stands for the null result
getMagnifyParams(image, ref, p, stage, md, zoom) ==
  IF image = Absent THEN Absent
  ELSE
    LET refDim == Reference(image, ref)
        cx == Center(p, stage, refDim, 1)
        cy == Center(p, stage, refDim, 2)
        sw == SourceSize(md, zoom, 1)
        sh == SourceSize(md, zoom, 2)
        sx == Source(cx, sw, refDim[1])
        sy == Source(cy, sh, refDim[2])
        \* line 151: a reference is given and it is another object
        other == ref # Absent /\ image[1] # ref[1]
        kx == ImageScale(image, refDim, 1)
        ky == ImageScale(image, refDim, 2)
    IN [x |-> IF other THEN RMul(sx, kx) ELSE sx,
        y |-> IF other THEN RMul(sy, ky) ELSE sy,
        scaleX |-> IF other THEN RDiv(SafeZoom(zoom), kx) ELSE SafeZoom(zoom),
        scaleY |-> IF other THEN RDiv(SafeZoom(zoom), ky) ELSE SafeZoom(zoom),
        sourceWidth |-> sw, sourceHeight |-> sh, centerX |-> cx, centerY |-> cy]

\* inputs: loaded images (natural sizes), pointer coordinates, stage and
\* output sizes, zoom factors
Images == {<<1, 1600, 1200>>, <<2, 800, 600>>, <<3, 600, 400>>, <<4, 2400, 1800>>}
Coords == {0, 1, 150, 200, 299, 300, 399, 400}
StageDims == {Absent, <<400, 300>>, <<0, 0>>, <<600, 400>>}
MagDims == {Absent, <<400, 400>>, <<0, 0>>, <<200, 100>>}
Zooms == {Absent, <<0, 1>>, <<1, 2>>, <<1, 1>>, <<2, 1>>}

arVars == <<selectedImage, isARSupported, arSessionActive, xrSessionRef, frameRef,
            canvasRef, hitTestSourceRef, pc, owner, h, placed, pose, timer, raf,
            pending, framePath, sess, endEvt, dom, diag, hitActive, elapsed, hitSel, nFallback,
            tornDown, td, uncaught>>

MagInputs ==
  [called : {FALSE}, a : Images \cup {Absent}, b : Images,
   ref : Images \cup {Absent}, p : Coords \X Coords, stage : StageDims,
   md : MagDims, zoom : Zooms, outA : {Absent}, outB : {Absent}]

\* a call site with its arguments chosen, the AR viewer untouched
MagInit ==
  /\ ARInit /\ mag \in MagInputs
  /\ ldr = LoaderStart(1) /\ rsz = ResizeStart(400, <<600, 400>>)

\* lines 220-229 and 592-621: one render over the same pointer, stage, output
\* size, zoom and reference: the magnified view of image a and the compare
\* slider's view of image b
Render ==
  /\ ~mag.called
  /\ mag' = [mag EXCEPT !.called = TRUE,
               !.outA = getMagnifyParams(mag.a, mag.ref, mag.p, mag.stage,
                                         mag.md, mag.zoom),
               !.outB = getMagnifyParams(mag.b, mag.ref, mag.p, mag.stage,
                                         mag.md, mag.zoom)]
  /\ UNCHANGED <<arVars, ldr, rsz>>

MagNext == Render

SpecMag == MagInit /\ [][MagNext]_vars

----------------------------------------------------------------------------
(* Properties of getMagnifyParams *)

\* the pointer of the latest render lies strictly inside the stage
PointerInside ==
  /\ RLe(Int2Rat(1), Int2Rat(mag.p[1]))
  /\ RLe(Int2Rat(mag.p[1] + 1), SafeStage(mag.stage)[1])
  /\ RLe(Int2Rat(1), Int2Rat(mag.p[2]))
  /\ RLe(Int2Rat(mag.p[2] + 1), SafeStage(mag.stage)[2])

\* [x, x + sourceWidth] x [y, y + sourceHeight] of result out lies within
\* [0, referenceWidth] x [0, referenceHeight]
RectWithin(out, refDim) ==
  /\ RLe(Zero, out.x) /\ RLe(RAdd(out.x, out.sourceWidth), refDim[1])
  /\ RLe(Zero, out.y) /\ RLe(RAdd(out.y, out.sourceHeight), refDim[2])

\* C8 (as claimed): for a pointer strictly inside the stage the sampled
\* rectangle lies within the reference image, whatever the image, reference,
\* output size and zoom.
C8_RectWithinReference ==
  (mag.called /\ mag.a # Absent /\ PointerInside)
    => RectWithin(mag.outA, Reference(mag.a, mag.ref))

\* C9: two images under the same pointer and the same reference image sample
\* the same relative region: x / image.width and y / image.height agree
\* between the two results and equal sourceX / referenceWidth and
\* sourceY / referenceHeight.
C9_SameRelativeRegion ==
  (mag.called /\ mag.a # Absent /\ mag.ref # Absent)
    => LET refDim == Reference(mag.a, mag.ref)
           relAx == RDiv(mag.outA.x, Int2Rat(mag.a[2]))
           relAy == RDiv(mag.outA.y, Int2Rat(mag.a[3]))
           relBx == RDiv(mag.outB.x, Int2Rat(mag.b[2]))
           relBy == RDiv(mag.outB.y, Int2Rat(mag.b[3]))
           sx == Source(mag.outA.centerX, mag.outA.sourceWidth, refDim[1])
           sy == Source(mag.outA.centerY, mag.outA.sourceHeight, refDim[2])
       IN /\ relAx = relBx /\ relAy = relBy
          /\ relAx = RDiv(sx, refDim[1]) /\ relAy = RDiv(sy, refDim[2])

\* C9 witness: two images of different native sizes, neither of them the
\* reference, sampled away from the origin
C9_Witness ==
  /\ mag.called /\ mag.a # Absent /\ mag.ref # Absent
  /\ mag.a[2] # mag.b[2] /\ mag.a[1] # mag.ref[1] /\ mag.b[1] # mag.ref[1]
  /\ mag.a[2] # mag.ref[2] /\ mag.b[2] # mag.ref[2]
  /\ mag.outA.x # Zero /\ mag.outA.y # Zero

\* C10 (as claimed): with zoomScale, stageDimensions or magDimensions missing
\* or zero the call still returns a result, computed with 0.5, 400x300 and
\* 400x400 in their place, whose rectangle lies within the reference image;
\* no result is returned only for an absent image.
C10_DefaultsGiveClampedRect ==
  mag.called =>
    /\ (mag.outA = Absent) <=> (mag.a = Absent)
    /\ (mag.a # Absent /\ PointerInside
        /\ (mag.zoom \in {Absent, Zero} \/ mag.stage \in {Absent, <<0, 0>>}
            \/ mag.md \in {Absent, <<0, 0>>}))
         => /\ mag.zoom \in {Absent, Zero} =>
                 mag.outA.scaleX = IF mag.ref # Absent /\ mag.a[1] # mag.ref[1]
                                     THEN RDiv(<<1, 2>>, RDiv(Int2Rat(mag.a[2]),
                                                            Int2Rat(mag.ref[2])))
                                     ELSE <<1, 2>>
            /\ mag.stage \in {Absent, <<0, 0>>} =>
                 /\ mag.outA.centerX = RDiv(RMul(Int2Rat(mag.p[1]),
                                                Reference(mag.a, mag.ref)[1]), <<400, 1>>)
                 /\ mag.outA.centerY = RDiv(RMul(Int2Rat(mag.p[2]),
                                                Reference(mag.a, mag.ref)[2]), <<300, 1>>)
            /\ mag.md \in {Absent, <<0, 0>>} =>
                 /\ mag.outA.sourceWidth = RDiv(<<400, 1>>, SafeZoom(mag.zoom))
                 /\ mag.outA.sourceHeight = RDiv(<<400, 1>>, SafeZoom(mag.zoom))
            /\ RectWithin(mag.outA, Reference(mag.a, mag.ref))

\* C11: for a pointer at the top-left corner (0, 0) the origin of the sampled
\* rectangle is exactly (0, 0), for every image, reference, output size and
\* (positive or defaulted) zoom.
C11_CornerClampsToOrigin ==
  (mag.called /\ mag.a # Absent /\ mag.p = <<0, 0>>)
    => /\ mag.outA.x = Zero /\ mag.outA.y = Zero
       /\ mag.outB.x = Zero /\ mag.outB.y = Zero

\* C11 witness: the corner, with a sampled region smaller than the reference
\* and an image other than the reference
C11_Witness ==
  /\ mag.called /\ mag.a # Absent /\ mag.p = <<0, 0>>
  /\ mag.ref # Absent /\ mag.a[1] # mag.ref[1]
  /\ ~RLe(Int2Rat(mag.ref[2]), mag.outA.sourceWidth)
  /\ ~RLe(Int2Rat(mag.ref[3]), mag.outA.sourceHeight)

\* C12: for a pointer at the exact centre of the stage the function works
\* with (the given stage, or 400x300 in place of a missing or zero one),
\* centerX = referenceWidth / 2 and centerY = referenceHeight / 2.
C12_CentreMapsToCentre ==
  (mag.called /\ mag.a # Absent
   /\ Int2Rat(2 * mag.p[1]) = SafeStage(mag.stage)[1]
   /\ Int2Rat(2 * mag.p[2]) = SafeStage(mag.stage)[2])
    => LET refDim == Reference(mag.a, mag.ref)
       IN /\ mag.outA.centerX = RDiv(refDim[1], Two)
          /\ mag.outA.centerY = RDiv(refDim[2], Two)

\* C12 witness: the centre of a 600x400 stage over a reference that is not
\* the image
C12_Witness ==
  /\ mag.called /\ mag.a # Absent /\ mag.stage = <<600, 400>> /\ mag.p = <<300, 200>>
  /\ mag.ref # Absent /\ mag.a[1] # mag.ref[1]
  /\ mag.outA.centerX = RDiv(Int2Rat(mag.ref[2]), Two)

----------------------------------------------------------------------------
(* Image loader: useImageLoader, filmscanning/page.tsx 68-110.  An Image   *)
(* object made by the effect is an entry of ldr.loads: its URL, whether    *)
(* its onload / onerror handlers are still attached, and whether the       *)
(* browser's fetch is pending, succeeded ("ok") or failed ("err").         *)

MaxLoads == 3       \* Image objects made over a behaviour

Urls == {0, 1, 2}   \* 0 is the empty string
\* naturalWidth x naturalHeight reported by a decoded image; 0 x 0 for an
\* image without intrinsic size
NaturalSizes == {<<0, 0>>, <<800, 600>>}

\* mutant: the cleanup leaves the handlers attached
DetachKeepsHandlers(loads) == loads

\* lines 102-106: the cleanup of the effect detaches the handlers of the
\* Image that effect made (the latest one); an effect that returned early
\* has no cleanup
Detach(loads) ==
  [i \in 1..Len(loads) |->
     IF i = Len(loads) THEN [loads[i] EXCEPT !.attached = FALSE] ELSE loads[i]]

\* lines 74-100: the effect body for the URL st.url
RunEffect(st) ==
  IF st.url = 0
    THEN [st EXCEPT !.loading = FALSE, !.error = "No image URL provided"]
    ELSE [st EXCEPT !.loads = Append(st.loads,
                        [url |-> st.url, attached |-> TRUE, status |-> "pending"])]

\* the cleanup to run before the next effect or at unmount: the previous
\* effect's, if that effect made an Image
Cleanup(st) ==
  IF st.phase = "mounted" /\ st.url # 0
    THEN [st EXCEPT !.loads = Detach(st.loads)]
    ELSE st

\* line 107: the effect runs after the first render
LoaderMount ==
  /\ ldr.phase = "constructed"
  /\ ldr.url = 0 \/ Len(ldr.loads) < MaxLoads
  /\ ldr' = [RunEffect(ldr) EXCEPT !.phase = "mounted"]
  /\ UNCHANGED <<arVars, mag, rsz>>

\* line 107: imageUrl changed: the previous cleanup, then the effect again;
\* no state is reset
UrlChange(u) ==
  /\ ldr.phase = "mounted" /\ u # ldr.url
  /\ u = 0 \/ Len(ldr.loads) < MaxLoads
  /\ ldr' = RunEffect([Cleanup(ldr) EXCEPT !.url = u])
  /\ UNCHANGED <<arVars, mag, rsz>>

\* the component unmounts: the cleanup runs
LoaderUnmount ==
  /\ ldr.phase = "mounted"
  /\ ldr' = [Cleanup(ldr) EXCEPT !.phase = "unmounted"]
  /\ UNCHANGED <<arVars, mag, rsz>>

\* lines 85-92: onload of Image i
OnLoad(st, i, nat) ==
  [st EXCEPT !.image = i,
             !.dimensions = <<IF nat[1] = 0 THEN 600 ELSE nat[1],
                              IF nat[2] = 0 THEN 400 ELSE nat[2]>>,
             !.loading = FALSE]

\* lines 94-98: onerror of Image i
OnError(st, i) == [st EXCEPT !.error = "Failed to load image", !.loading = FALSE]

\* the browser finishes the fetch of Image i and fires load or error; a
\* handler that was set to null is not called
LoadSettles(i, ok, nat) ==
  /\ i \in 1..Len(ldr.loads) /\ ldr.loads[i].status = "pending"
  /\ LET st == [ldr EXCEPT !.loads[i].status = IF ok THEN "ok" ELSE "err"]
     IN ldr' = IF ~ldr.loads[i].attached THEN st
               ELSE IF ok THEN OnLoad(st, i, nat) ELSE OnError(st, i)
  /\ UNCHANGED <<arVars, mag, rsz>>

LoaderInit ==
  /\ ARInit /\ mag = NoMag /\ rsz = ResizeStart(400, <<600, 400>>)
  /\ \E u \in Urls : ldr = LoaderStart(u)

LoaderNext ==
  \/ LoaderMount
  \/ \E u \in Urls : UrlChange(u)
  \/ LoaderUnmount
  \/ \E i \in 1..MaxLoads, ok \in BOOLEAN, nat \in NaturalSizes : LoadSettles(i, ok, nat)

SpecLoader == LoaderInit /\ [][LoaderNext]_vars

\* what the hook returns (line 109)
LoaderState(st) == <<st.image, st.dimensions, st.loading, st.error>>

\* the effect that made Image i has been cleaned up: the component has
\* unmounted, or the URL has changed since (every effect for a non-empty URL
\* makes a new Image, so the current effect's Image is the latest one)
CleanedUp(i) == ldr.phase = "unmounted" \/ i < Len(ldr.loads) \/ ldr.url = 0

\* C13: the completion, success or failure, of a load whose effect was
\* cleaned up (unmount or URL change) changes none of image, dimensions,
\* loading and error.
C13_DetachedLoadIsSilent ==
  [][\A i \in 1..Len(ldr.loads) :
       (CleanedUp(i) /\ ldr.loads[i].status = "pending"
        /\ Len(ldr'.loads) = Len(ldr.loads) /\ ldr'.loads[i].status # "pending")
         => LoaderState(ldr') = LoaderState(ldr)]_vars

\* C13 witness: a load was detached by a URL change and then succeeded,
\* while the hook still waits for the load of the new URL
C13_Witness ==
  /\ Len(ldr.loads) >= 2
  /\ CleanedUp(1) /\ ldr.loads[1].status = "ok"
  /\ ~CleanedUp(2) /\ ldr.loads[2].status = "pending"
  /\ ldr.image = 0 /\ ldr.loading

\* C14 (as claimed): the hook is always in exactly one of the states loading
\* (loading, no image, no error), loaded (not loading, image and dimensions,
\* no error) and failed (not loading, an error message, no image).
C14_OneOfThreeStates ==
  \/ ldr.loading /\ ldr.image = 0 /\ ldr.error = "none"
  \/ ~ldr.loading /\ ldr.image # 0 /\ ldr.dimensions # <<>> /\ ldr.error = "none"
  \/ ~ldr.loading /\ ldr.error # "none" /\ ldr.image = 0

----------------------------------------------------------------------------
(* Resize handling of Home, filmscanning/page.tsx 406-443.  rsz holds the   *)
(* container's offsetWidth, imageDimensions, stageDimensions, and the       *)
(* state of lodash's debounce(updateDimensions, 150) in its default         *)
(* (trailing) mode: timerLeft is the time in ms until its timer expires     *)
(* (-1: no timer), since the time since the last call, capped at the wait.  *)
(* calls, runs and firstW observe the current burst: the notifications in   *)
(* it, the updateDimensions runs the debounce made since it began, and the  *)
(* width at its first notification.                                         *)

MaxCalls == 3       \* notifications counted in one burst

Wait == 150         \* line 424
Widths == {0, 300, 400, 650}
LoadedDims == {<<600, 400>>, <<800, 600>>}
Steps == {50, 100}  \* amounts of time that pass in one step

Min(a, b) == IF a < b THEN a ELSE b

\* lines 407-418; stageRef.current is null once the component has unmounted
updateDimensions(st) ==
  IF st.phase # "mounted" \/ st.dims = <<>> THEN st
  ELSE LET containerWidth == IF st.width = 0 THEN 400 ELSE st.width
           imgWidth == IF st.dims[1] = 0 THEN 600 ELSE st.dims[1]
           imgHeight == IF st.dims[2] = 0 THEN 400 ELSE st.dims[2]
           fl == (containerWidth * imgHeight) \div imgWidth
           stageHeight == IF fl = 0 THEN 300 ELSE fl
       IN [st EXCEPT !.stage = <<containerWidth, stageHeight>>]

\* mutant: the timer's expiry always invokes, whenever the last call was
shouldInvokeAlways(since) == TRUE

\* debounce: at the timer's expiry the function is invoked when the wait has
\* passed since the last call; otherwise the timer is restarted
shouldInvoke(since) == since >= Wait

\* the resize has stopped: the wait has passed since the last notification
\* and no debounce timer is running
Quiescent == rsz.timerLeft = -1 /\ rsz.since >= Wait

\* lines 421-435: the effect, once the image is loaded: the observer is set
\* up and updateDimensions is called directly
ResizeMount ==
  /\ rsz.phase = "constructed"
  /\ rsz' = [updateDimensions([rsz EXCEPT !.phase = "mounted"]) EXCEPT !.since = Wait]
  /\ UNCHANGED <<arVars, mag, ldr>>

\* the container's width is w and the observer notifies: debouncedResize is
\* called (lines 424, 430)
ResizeNotify(w) ==
  /\ rsz.phase = "mounted"
  /\ Quiescent \/ rsz.calls < MaxCalls
  /\ rsz' = [rsz EXCEPT
       !.width = w, !.since = 0,
       !.timerLeft = IF rsz.timerLeft = -1 THEN Wait ELSE rsz.timerLeft,
       !.calls = IF Quiescent THEN 1 ELSE rsz.calls + 1,
       !.runs = IF Quiescent THEN 0 ELSE rsz.runs,
       !.firstW = IF Quiescent THEN w ELSE rsz.firstW]
  /\ UNCHANGED <<arVars, mag, ldr>>

\* d ms pass, not beyond the expiry of the timer
TimePasses(d) ==
  /\ rsz.timerLeft >= d
  /\ rsz' = [rsz EXCEPT !.timerLeft = rsz.timerLeft - d,
                        !.since = Min(Wait, rsz.since + d)]
  /\ UNCHANGED <<arVars, mag, ldr>>

\* the debounce timer expires
TimerExpired ==
  /\ rsz.timerLeft = 0
  /\ rsz' = IF shouldInvoke(rsz.since)
              THEN [updateDimensions(rsz) EXCEPT !.timerLeft = -1,
                                                  !.runs = Min(2, rsz.runs + 1)]
              ELSE [rsz EXCEPT !.timerLeft = Wait - rsz.since]
  /\ UNCHANGED <<arVars, mag, ldr>>

\* lines 437-441: the cleanup disconnects the observer; the debounce timer
\* is not cancelled
ResizeUnmount ==
  /\ rsz.phase = "mounted"
  /\ rsz' = [rsz EXCEPT !.phase = "unmounted"]
  /\ UNCHANGED <<arVars, mag, ldr>>

ResizeInit ==
  /\ ARInit /\ mag = NoMag /\ ldr = LoaderStart(1)
  /\ \E w \in Widths, dims \in LoadedDims : rsz = ResizeStart(w, dims)

ResizeNext ==
  \/ ResizeMount
  \/ \E w \in Widths : ResizeNotify(w)
  \/ \E d \in Steps : TimePasses(d)
  \/ TimerExpired
  \/ ResizeUnmount

SpecResize == ResizeInit /\ [][ResizeNext]_vars

\* C15: while the component is mounted, a burst of resize notifications makes
\* no updateDimensions run before 150 ms have passed since its last
\* notification, and exactly one after; that run sets the stage dimensions
\* from the container width of that time, the latest of the burst.
C15_ResizeCoalesced ==
  (rsz.phase = "mounted" /\ rsz.calls > 0) =>
    /\ (rsz.since < Wait \/ rsz.timerLeft # -1) => rsz.runs = 0
    /\ Quiescent =>
         /\ rsz.runs = 1
         /\ rsz.stage = updateDimensions(rsz).stage
         /\ rsz.stage[1] = IF rsz.width = 0 THEN 400 ELSE rsz.width

\* C15 witness: a burst of several notifications that began at another width
\* has been answered by one run
C15_Witness ==
  /\ rsz.phase = "mounted" /\ rsz.calls >= 2 /\ Quiescent /\ rsz.runs = 1
  /\ rsz.firstW = 300 /\ rsz.width = 650 /\ rsz.stage = <<650, 433>>

----------------------------------------------------------------------------
(* The lens rectangle of the main stage, filmscanning/page.tsx 341-350 and  *)
(* 477-490, for the finite, non-zero magDimensions, zoomScale and           *)
(* stageDimensions that Home holds (isNaN is then false).                   *)

\* lines 477-490: <<width, height>> of the lens in stage coordinates
lensSize(image1, md, zoom, stage) ==
  IF image1 = Absent THEN <<Int2Rat(50), Int2Rat(50)>>
  ELSE LET sourceWidth == RDiv(Int2Rat(md[1]), zoom)
           sourceHeight == RDiv(Int2Rat(md[2]), zoom)
           stageScaleX == RDiv(Int2Rat(stage[1]), Int2Rat(image1[2]))
           stageScaleY == RDiv(Int2Rat(stage[2]), Int2Rat(image1[3]))
       IN <<RMul(sourceWidth, stageScaleX), RMul(sourceHeight, stageScaleY)>>

\* lines 341-350: the Rect drawn on the stage, centred on the pointer
LensRect(p, lens) ==
  [x |-> RSub(Int2Rat(p[1]), RDiv(lens[1], Two)),
   y |-> RSub(Int2Rat(p[2]), RDiv(lens[2], Two)),
   width |-> lens[1], height |-> lens[2]]

\* a rectangle of the stage in reference-image coordinates: the mapping of
\* lines 134-135, stage / (stage size / reference size)
StageToReference(rect, stage, refDim) ==
  [x |-> RDiv(rect.x, RDiv(Int2Rat(stage[1]), refDim[1])),
   y |-> RDiv(rect.y, RDiv(Int2Rat(stage[2]), refDim[2])),
   width |-> RDiv(rect.width, RDiv(Int2Rat(stage[1]), refDim[1])),
   height |-> RDiv(rect.height, RDiv(Int2Rat(stage[2]), refDim[2]))]

\* the render is one of Home's: the image is its own reference (image1) and
\* output size, zoom and stage are present and not zero
HomeRender ==
  /\ mag.called /\ mag.a # Absent /\ mag.ref = mag.a
  /\ mag.md \notin {Absent, <<0, 0>>} /\ mag.stage \notin {Absent, <<0, 0>>}
  /\ mag.zoom \notin {Absent, Zero}

\* C21 (as claimed): for every pointer inside the stage, the lens rectangle
\* mapped to reference-image coordinates equals the sampled rectangle
\* [x, x + sourceWidth] x [y, y + sourceHeight] of getMagnifyParams, also
\* near the edges where the sample is clamped.
C21_LensMarksSample ==
  (HomeRender /\ mag.p[1] <= mag.stage[1] /\ mag.p[2] <= mag.stage[2]) =>
    LET lens == StageToReference(
                  LensRect(mag.p, lensSize(mag.a, mag.md, mag.zoom, mag.stage)),
                  mag.stage, Reference(mag.a, mag.ref))
    IN lens = [x |-> mag.outA.x, y |-> mag.outA.y,
               width |-> mag.outA.sourceWidth, height |-> mag.outA.sourceHeight]

====
